---- MODULE Spec2Model ----
(***************************************************************************)
(* A model of src/main.py: the command line program that asks a hosted     *)
(* text-to-image provider for an image, embeds the generation parameters   *)
(* in the PNG, saves it under /tmp and uploads it to an S3 bucket.         *)
(*                                                                         *)
(* Python strings are modelled as sequences of one-character strings, so   *)
(* that str(), f-strings, "in", lower(), slicing and Path(...).name are    *)
(* computed character by character as the code computes them.              *)
(*                                                                         *)
(* Two specifications:                                                     *)
(*   Spec    concurrent runs of main() sharing /tmp, the bucket and the    *)
(*           wall clock;                                                   *)
(*   SpecFn  one call of generate_image_with_replicate, then               *)
(*           add_metadata_to_image, then upload_to_s3's metadata mirror,   *)
(*           on inputs drawn from bounded sets.                            *)
(***************************************************************************)
EXTENDS Integers, Sequences, FiniteSets, TLC

VARIABLES
    \* ---- shared by the runs of main() (Spec)
    clock,      \* the wall clock's date: [y, m, d]
    ticks,      \* how many times the date has advanced
    fs,         \* the files under /tmp: path -> content
    puts,       \* the upload requests the storage service received
    \* ---- per run of main() (Spec)
    pc,         \* position of each run in main()
    args,       \* the parsed command line and environment of each run
    img,        \* the generated image (and its PngInfo) of each run
    now,        \* create_s3_key_organized's local `now`
    s3_key,     \* main's s3_key
    tmp_path,   \* main's tmp_path
    exc,        \* the exception that ended the run, if any
    exit_code,  \* the process's exit status
    \* ---- one call of each function (SpecFn)
    fpc,        \* position in the sequence of calls
    call,       \* the arguments and the provider's response
    job,        \* the job description client.run received, if any
    gen,        \* what generate_image_with_replicate returned or raised
    logged,     \* the logger.error lines written
    png_meta,   \* the PngInfo text chunks add_metadata_to_image built
    s3_meta     \* the s3_metadata mapping upload_to_s3 built

mainVars == <<clock, ticks, fs, puts, pc, args, img, now, s3_key, tmp_path, exc, exit_code>>
fnVars == <<fpc, call, job, gen, logged, png_meta, s3_meta>>
vars == <<mainVars, fnVars>>

(***************************************************************************)
(* Bounds                                                                  *)
(***************************************************************************)
\* The date advances at most this many times during a behaviour.
MaxTicks == 1
\* Widths and heights range over -1..MaxDim.
MaxDim == 6

(***************************************************************************)
(* Python string operations                                                *)
(***************************************************************************)
Digits == <<"0", "1", "2", "3", "4", "5", "6", "7", "8", "9">>

RECURSIVE NatToStr(_)
NatToStr(n) ==
    IF n < 10 THEN <<Digits[n + 1]>>
    ELSE NatToStr(n \div 10) \o <<Digits[(n % 10) + 1]>>

\* str(n) for an int n
IntToStr(n) == IF n < 0 THEN <<"-">> \o NatToStr(-n) ELSE NatToStr(n)

\* str(x) for a float x with one decimal digit, held as tenths (35 is 3.5)
FloatToStr(t) ==
    IF t < 0 THEN <<"-">> \o NatToStr((-t) \div 10) \o <<".">> \o NatToStr((-t) % 10)
    ELSE NatToStr(t \div 10) \o <<".">> \o NatToStr(t % 10)

\* strftime's zero padding of a number to w digits (%Y: 4, %m and %d: 2)
RECURSIVE ZeroPad(_, _)
ZeroPad(s, w) == IF Len(s) >= w THEN s ELSE ZeroPad(<<"0">> \o s, w)

\* needle in hay
Contains(hay, needle) ==
    \E i \in 1..(Len(hay) - Len(needle) + 1) :
        SubSeq(hay, i, i + Len(needle) - 1) = needle

UpperCase == <<"A", "B", "C", "D", "E", "F", "G", "H", "I", "J", "K", "L", "M",
               "N", "O", "P", "Q", "R", "S", "T", "U", "V", "W", "X", "Y", "Z">>
LowerCase == <<"a", "b", "c", "d", "e", "f", "g", "h", "i", "j", "k", "l", "m",
               "n", "o", "p", "q", "r", "s", "t", "u", "v", "w", "x", "y", "z">>

LowerChar(c) ==
    IF \E i \in 1..26 : UpperCase[i] = c
    THEN LowerCase[CHOOSE i \in 1..26 : UpperCase[i] = c]
    ELSE c

\* s.lower()
Lower(s) == [i \in 1..Len(s) |-> LowerChar(s[i])]

\* s[:n]
Prefix(s, n) == SubSeq(s, 1, IF Len(s) < n THEN Len(s) ELSE n)

\* The components of a path: split on "/", empty and "." components dropped
\* (pathlib's parsing of a relative or absolute POSIX path).
RECURSIVE PathParts(_, _)
PathParts(s, cur) ==
    LET keep == IF cur = <<>> \/ cur = <<".">> THEN <<>> ELSE <<cur>>
    IN  IF s = <<>> THEN keep
        ELSE IF Head(s) = "/" THEN keep \o PathParts(Tail(s), <<>>)
        ELSE PathParts(Tail(s), Append(cur, Head(s)))

\* Path(s).name
PathName(s) ==
    LET parts == PathParts(s, <<>>)
    IN  IF parts = <<>> THEN <<>> ELSE parts[Len(parts)]

\* Path("/tmp") / name
TmpDir == <<"/", "t", "m", "p">>
TmpJoin(name) == IF name = <<>> THEN TmpDir ELSE TmpDir \o <<"/">> \o name

(***************************************************************************)
(* The wall clock: datetime.now() and strftime                             *)
(***************************************************************************)
IsLeap(y) == (y % 4 = 0 /\ y % 100 # 0) \/ y % 400 = 0

DaysInMonth(y, m) ==
    IF m = 2 THEN (IF IsLeap(y) THEN 29 ELSE 28)
    ELSE IF m \in {4, 6, 9, 11} THEN 30 ELSE 31

NextDay(t) ==
    IF t.d < DaysInMonth(t.y, t.m) THEN [t EXCEPT !.d = t.d + 1]
    ELSE IF t.m < 12 THEN [y |-> t.y, m |-> t.m + 1, d |-> 1]
    ELSE [y |-> t.y + 1, m |-> 1, d |-> 1]

StartDates ==
    { [y |-> 2025, m |-> 10, d |-> 13],
      [y |-> 2025, m |-> 12, d |-> 31] }

StrfY(t) == ZeroPad(NatToStr(t.y), 4)
Strfm(t) == ZeroPad(NatToStr(t.m), 2)
Strfd(t) == ZeroPad(NatToStr(t.d), 2)
\* strftime("%Y-%m-%d")
StrfYmd(t) == StrfY(t) \o <<"-">> \o Strfm(t) \o <<"-">> \o Strfd(t)
\* isoformat(), the time of day abstracted to midnight
IsoFormat(t) == StrfYmd(t) \o <<"T", "0", "0", ":", "0", "0", ":", "0", "0">>

(***************************************************************************)
(* Values                                                                  *)
(***************************************************************************)
\* Optional[int]
NoneInt == [some |-> FALSE, v |-> 0]
SomeInt(n) == [some |-> TRUE, v |-> n]
\* A variant of Truthy: the test `seed is not None` in place of `seed`
TruthyNotNone(seed) == seed.some

\* Python's truth value of an Optional[int]: None and 0 are false
Truthy(seed) == seed.some /\ seed.v # 0

\* Optional[str]; Python's truth value: None and "" are false
NoneStr == [some |-> FALSE, s |-> <<>>]
SomeStr(s) == [some |-> TRUE, s |-> s]
TruthyStr(x) == x.some /\ x.s # <<>>

\* dict[k] = v
Put(f, k, v) == [x \in DOMAIN f \cup {k} |-> IF x = k THEN v ELSE f[x]]
EmptyDict == [x \in {} |-> <<>>]

\* An exception: its class and str(e). origin and status are the environment's
\* facts about where it arose (provider call, response shape, URL fetch, image
\* decode) and the HTTP status behind it; the code reads neither.
Exc(type, msg, origin, status) ==
    [type |-> type, msg |-> msg, origin |-> origin, status |-> status]
NoExc == Exc("None", <<>>, "none", 0)

(***************************************************************************)
(* get_replicate_token                                                     *)
(***************************************************************************)
MissingTokenError ==
    Exc("ValueError",
        <<"R", "e", "p", "l", "i", "c", "a", "t", "e", " ", "A", "P", "I", " ",
          "t", "o", "k", "e", "n", " ", "n", "o", "t", " ", "f", "o", "u", "n", "d">>,
        "token", 0)

\* os.getenv("REPLICATE_API_TOKEN") held as an Optional[str]
TokenMissing(token) == ~TruthyStr(token)

(***************************************************************************)
(* generate_image_with_replicate                                           *)
(***************************************************************************)
Max(a, b) == IF a >= b THEN a ELSE b

\* math.gcd on non-negative arguments
RECURSIVE Gcd(_, _)
Gcd(a, b) == IF b = 0 THEN a ELSE Gcd(b, a % b)

\* A variant of AspectRatio: the ratio not reduced by the gcd
AspectRatioUnreduced(width, height) ==
    IntToStr(width) \o <<":">> \o IntToStr(height)

\* g = gcd(max(width,1), max(height,1)); ar = f"{width//g}:{height//g}"
AspectRatio(width, height) ==
    LET g == Gcd(Max(width, 1), Max(height, 1))
    IN  IntToStr(width \div g) \o <<":">> \o IntToStr(height \div g)

OneToOne == <<"1", ":", "1">>
Png == <<"p", "n", "g">>

\* A variant of GenInputs: steps forwarded to the provider
GenInputsWithSteps(prompt, steps, guidance, seed, width, height, output_format) ==
    LET base == [k \in {"prompt", "cfg", "output_format", "steps"} |->
                    IF k = "prompt" THEN prompt
                    ELSE IF k = "cfg" THEN guidance
                    ELSE IF k = "steps" THEN steps
                    ELSE output_format]
        withSeed == IF seed.some THEN Put(base, "seed", seed.v) ELSE base
        ar == AspectRatio(width, height)
    IN  IF ar # OneToOne THEN Put(withSeed, "aspect_ratio", ar) ELSE withSeed

\* The `inputs` dict. steps is a parameter of the function and is not read.
GenInputs(prompt, steps, guidance, seed, width, height, output_format) ==
    LET base == [k \in {"prompt", "cfg", "output_format"} |->
                    IF k = "prompt" THEN prompt
                    ELSE IF k = "cfg" THEN guidance
                    ELSE output_format]
        withSeed == IF seed.some THEN Put(base, "seed", seed.v) ELSE base
        ar == AspectRatio(width, height)
    IN  IF ar # OneToOne THEN Put(withSeed, "aspect_ratio", ar) ELSE withSeed

\* ---- what the provider and the network can answer
\* Bytes: decodable as an image or not; addr is the address that the repr of
\* the BytesIO object shows in PIL's error message when they are not.
Bytes(decodable, pixels, addr) ==
    [decodable |-> decodable, pixels |-> pixels, addr |-> addr]
NoBytes == Bytes(FALSE, 0, <<>>)

\* The result of requests.get on a URL
HttpOk(data) == [kind |-> "ok", code |-> 200, data |-> data]
HttpStatus(code) == [kind |-> "status", code |-> code, data |-> NoBytes]
HttpConn == [kind |-> "conn", code |-> 0, data |-> NoBytes]

\* A value client.run returns: a FileOutput, a URL string, a list, an int
FileOutput(data) == [t |-> "FileOutput", data |-> data, http |-> HttpConn, items |-> <<>>]
UrlStr(http) == [t |-> "str", data |-> NoBytes, http |-> http, items |-> <<>>]
ListOf(items) == [t |-> "list", data |-> NoBytes, http |-> HttpConn, items |-> items]
IntOut == [t |-> "int", data |-> NoBytes, http |-> HttpConn, items |-> <<>>]

Reason(code) ==
    IF code = 401 THEN <<"U", "n", "a", "u", "t", "h", "o", "r", "i", "z", "e", "d">>
    ELSE IF code = 403 THEN <<"F", "o", "r", "b", "i", "d", "d", "e", "n">>
    ELSE IF code = 404 THEN <<"N", "o", "t", " ", "F", "o", "u", "n", "d">>
    ELSE <<"E", "r", "r", "o", "r">>

\* requests' raise_for_status message: "<code> Client Error: <reason>" (the
\* " for url: ..." tail is left out), "Server Error" from 500 on
HttpErrorMsg(code) ==
    IntToStr(code)
    \o (IF code < 500
        THEN <<" ", "C", "l", "i", "e", "n", "t", " ", "E", "r", "r", "o", "r", ":", " ">>
        ELSE <<" ", "S", "e", "r", "v", "e", "r", " ", "E", "r", "r", "o", "r", ":", " ">>)
    \o Reason(code)

ConnectionError ==
    Exc("ConnectionError",
        <<"C", "o", "n", "n", "e", "c", "t", "i", "o", "n", " ", "r", "e", "f", "u", "s", "e", "d">>,
        "fetch", 0)

IndexError ==
    Exc("IndexError",
        <<"l", "i", "s", "t", " ", "i", "n", "d", "e", "x", " ", "o", "u", "t", " ",
          "o", "f", " ", "r", "a", "n", "g", "e">>,
        "shape", 0)

UnexpectedOutput ==
    Exc("RuntimeError",
        <<"U", "n", "e", "x", "p", "e", "c", "t", "e", "d", " ", "o", "u", "t", "p", "u", "t",
          " ", "t", "y", "p", "e", ":", " ", "<", "c", "l", "a", "s", "s", " ", "'", "i", "n",
          "t", "'", ">">>,
        "shape", 0)

UnidentifiedImage(addr) ==
    Exc("UnidentifiedImageError",
        <<"c", "a", "n", "n", "o", "t", " ", "i", "d", "e", "n", "t", "i", "f", "y", " ",
          "i", "m", "a", "g", "e", " ", "f", "i", "l", "e", " ", "<", "_", "i", "o", ".",
          "B", "y", "t", "e", "s", "I", "O", " ", "o", "b", "j", "e", "c", "t", " ", "a", "t",
          " ", "0", "x">> \o addr \o <<">">>,
        "decode", 0)

\* r = requests.get(fo); r.raise_for_status(); data = r.content
Fetch(http) ==
    IF http.kind = "conn" THEN [exc |-> ConnectionError, data |-> NoBytes]
    ELSE IF http.code >= 400
    THEN [exc |-> Exc("HTTPError", HttpErrorMsg(http.code), "fetch", http.code),
          data |-> NoBytes]
    ELSE [exc |-> NoExc, data |-> http.data]

\* fo = out[0] if isinstance(out, list) else out, then the bytes of fo
ReadOutput(out) ==
    IF out.t = "list" /\ out.items = <<>> THEN [exc |-> IndexError, data |-> NoBytes]
    ELSE LET fo == IF out.t = "list" THEN out.items[1] ELSE out
         IN  IF fo.t = "FileOutput" THEN [exc |-> NoExc, data |-> fo.data]
             ELSE IF fo.t = "str" THEN Fetch(fo.http)
             ELSE [exc |-> UnexpectedOutput, data |-> NoBytes]

\* Image.open(io.BytesIO(data))
NoImage == [pixels |-> 0]
ImageOpen(data) ==
    IF data.decodable THEN [exc |-> NoExc, image |-> [pixels |-> data.pixels]]
    ELSE [exc |-> UnidentifiedImage(data.addr), image |-> NoImage]

\* The body of the try block: the first exception it raises, or the image
TryBody(response) ==
    IF response.raises THEN [exc |-> response.exc, image |-> NoImage]
    ELSE LET r == ReadOutput(response.out)
         IN  IF r.exc # NoExc THEN [exc |-> r.exc, image |-> NoImage]
             ELSE ImageOpen(r.data)

InvalidTokenError ==
    Exc("ValueError",
        <<"I", "n", "v", "a", "l", "i", "d", " ", "R", "e", "p", "l", "i", "c", "a", "t", "e",
          " ", "t", "o", "k", "e", "n", " ", "(", "R", "E", "P", "L", "I", "C", "A", "T", "E",
          "_", "A", "P", "I", "_", "T", "O", "K", "E", "N", ")", ".">>,
        "handler", 0)

S404 == <<"4", "0", "4">>
S401 == <<"4", "0", "1">>
SUnauthorized == <<"u", "n", "a", "u", "t", "h", "o", "r", "i", "z", "e", "d">>

\* except Exception as e: what is raised out of the handler, and what it logs
Handler(e) ==
    IF Contains(e.msg, S404)
    THEN [exc |-> e, log |-> <<"Model slug not found">>]
    ELSE IF Contains(e.msg, S401) \/ Contains(Lower(e.msg), SUnauthorized)
    THEN [exc |-> InvalidTokenError, log |-> <<>>]
    ELSE [exc |-> e, log |-> <<>>]

\* One call: [ok, image, exc, sent, inputs, log]. sent says whether client.run
\* was called, and inputs is the job description it was given.
GenerateImage(token, prompt, steps, guidance, seed, width, height, response) ==
    IF TokenMissing(token)
    THEN [ok |-> FALSE, image |-> NoImage, exc |-> MissingTokenError,
          sent |-> FALSE, inputs |-> EmptyDict, log |-> <<>>]
    ELSE LET inputs == GenInputs(prompt, steps, guidance, seed, width, height, Png)
             body == TryBody(response)
         IN  IF body.exc = NoExc
             THEN [ok |-> TRUE, image |-> body.image, exc |-> NoExc,
                   sent |-> TRUE, inputs |-> inputs, log |-> <<>>]
             ELSE LET h == Handler(body.exc)
                  IN  [ok |-> FALSE, image |-> NoImage, exc |-> h.exc,
                       sent |-> TRUE, inputs |-> inputs, log |-> h.log]

(***************************************************************************)
(* add_metadata_to_image and upload_to_s3's metadata mirror                *)
(***************************************************************************)
ModelName ==
    <<"s", "t", "a", "b", "l", "e", "-", "d", "i", "f", "f", "u", "s", "i", "o", "n", "-",
      "3", ".", "5", "-", "l", "a", "r", "g", "e">>
GeneratorName ==
    <<"r", "e", "p", "l", "i", "c", "a", "t", "e", "-", "c", "l", "i", "e", "n", "t">>

\* The PngInfo text chunks, in the order of the add_text calls
AddMetadata(prompt, steps, guidance, seed, t) ==
    <<  <<"prompt", prompt>>,
        <<"steps", IntToStr(steps)>>,
        <<"guidance_scale", FloatToStr(guidance)>> >>
    \o (IF Truthy(seed) THEN << <<"seed", IntToStr(seed.v)>> >> ELSE <<>>)
    \o << <<"generated_at", IsoFormat(t)>>,
          <<"model", ModelName>>,
          <<"generator", GeneratorName>> >>

PromptCap == 1024

\* The s3_metadata dict
S3Metadata(prompt, steps, guidance, seed, t) ==
    LET base == [k \in {"prompt", "steps", "guidance", "generated-at", "model", "generator"} |->
                    IF k = "prompt" THEN Prefix(prompt, PromptCap)
                    ELSE IF k = "steps" THEN IntToStr(steps)
                    ELSE IF k = "guidance" THEN FloatToStr(guidance)
                    ELSE IF k = "generated-at" THEN IsoFormat(t)
                    ELSE IF k = "model" THEN ModelName
                    ELSE GeneratorName]
    IN  IF Truthy(seed) THEN Put(base, "seed", IntToStr(seed.v)) ELSE base

(***************************************************************************)
(* create_filename_with_date and create_s3_key_organized                   *)
(***************************************************************************)
Sd3 == <<"s", "d", "3">>
Images == <<"i", "m", "a", "g", "e", "s">>
DotPng == <<".", "p", "n", "g">>

\* timestamp = datetime.now().strftime("%Y-%m-%d"), t being what now() returned
CreateFilenameWithDate(prefix, t) == prefix \o <<"_">> \o StrfYmd(t) \o DotPng

\* t1 is what the function's own datetime.now() returned, t2 what the one inside
\* create_filename_with_date returned
CreateS3KeyOrganized(base_path, t1, t2) ==
    base_path \o <<"/">> \o StrfY(t1) \o <<"/">> \o Strfm(t1) \o <<"/">> \o Strfd(t1)
    \o <<"/">> \o CreateFilenameWithDate(Sd3, t2)

(***************************************************************************)
(* main                                                                    *)
(***************************************************************************)
Procs == {1, 2}

\* argparse's defaults
DefaultSteps == 28
DefaultGuidance == 35
DefaultWidth == 1024
DefaultHeight == 1024
DefaultSeed == NoneInt

ThePrompt == <<"a", " ", "c", "a", "t">>
TheToken == <<"r", "8">>
TheBucket == <<"b">>
FooPng == <<"f", "o", "o", ".", "p", "n", "g">>
XFooPng == <<"x", "/", "f", "o", "o", ".", "p", "n", "g">>

\* Exit statuses
ExitSuccess == 0
ExitInterrupted == 130
ExitFatal == 1
\* parser.error() ends the process through SystemExit(2)
ParserErrorStatus == 2

KeyboardInterrupt == Exc("KeyboardInterrupt", <<>>, "user", 0)
SystemExit == Exc("SystemExit", <<>>, "argparse", 0)
IsADirectoryError == Exc("IsADirectoryError", <<>>, "save", 0)
FileNotFoundError == Exc("FileNotFoundError", <<>>, "file", 0)
ClientError(code) == Exc("ClientError", <<>>, code, 0)

\* The error codes the storage service answers an upload with
S3ErrorCodes == {"NoSuchBucket", "AccessDenied", "InternalError"}

\* main's two handlers: except KeyboardInterrupt, except Exception
HandlerStatus(e) ==
    IF e.type = "KeyboardInterrupt" THEN ExitInterrupted ELSE ExitFatal

\* The positions inside main's try block
TryPcs == {"token", "generate", "metadata", "key", "organized",
           "organized_filename", "save", "upload", "unlink", "print"}

\* An exception raised inside the try block ends the run in a handler
Fail(p, e) ==
    /\ exc' = [exc EXCEPT ![p] = e]
    /\ exit_code' = [exit_code EXCEPT ![p] = SomeInt(HandlerStatus(e))]
    /\ pc' = [pc EXCEPT ![p] = "done"]

\* A variant of ParseArgs: the missing bucket raised inside the try block
ParseArgsFatal(p) ==
    /\ pc[p] = "parse"
    /\ IF ~TruthyStr(args[p].bucket)
       THEN Fail(p, Exc("ValueError", <<>>, "argparse", 0))
       ELSE /\ pc' = [pc EXCEPT ![p] = "token"]
            /\ UNCHANGED <<exc, exit_code>>
    /\ UNCHANGED <<clock, ticks, fs, puts, args, img, now, s3_key, tmp_path, fnVars>>

\* args = parser.parse_args(); if not args.bucket: parser.error(...)
ParseArgs(p) ==
    /\ pc[p] = "parse"
    /\ IF ~TruthyStr(args[p].bucket)
       THEN /\ exc' = [exc EXCEPT ![p] = SystemExit]
            /\ exit_code' = [exit_code EXCEPT ![p] = SomeInt(ParserErrorStatus)]
            /\ pc' = [pc EXCEPT ![p] = "done"]
       ELSE /\ pc' = [pc EXCEPT ![p] = "token"]
            /\ UNCHANGED <<exc, exit_code>>
    /\ UNCHANGED <<clock, ticks, fs, puts, args, img, now, s3_key, tmp_path, fnVars>>

\* _ = get_replicate_token()
CheckToken(p) ==
    /\ pc[p] = "token"
    /\ IF TokenMissing(args[p].token)
       THEN Fail(p, MissingTokenError)
       ELSE /\ pc' = [pc EXCEPT ![p] = "generate"]
            /\ UNCHANGED <<exc, exit_code>>
    /\ UNCHANGED <<clock, ticks, fs, puts, args, img, now, s3_key, tmp_path, fnVars>>

\* ---- what the provider may answer a request whose image is `px`
StatusMsg(code) == <<"s", "t", "a", "t", "u", "s", ":", " ">> \o IntToStr(code)
ProviderError(code) == Exc("ReplicateError", StatusMsg(code), "provider", code)
ProviderUnauthorized ==
    Exc("ReplicateError",
        <<"U", "n", "a", "u", "t", "h", "o", "r", "i", "z", "e", "d">>, "provider", 401)

Raises(e) == [raises |-> TRUE, exc |-> e, out |-> IntOut]
Returns(out) == [raises |-> FALSE, exc |-> NoExc, out |-> out]

Good(px) == Bytes(TRUE, px, <<>>)
\* Undecodable bytes, for three addresses of the BytesIO object
BadBytes ==
    { Bytes(FALSE, 0, <<"7", "f", "3", "a", "1", "0">>),
      Bytes(FALSE, 0, <<"7", "f", "4", "0", "1", "0">>),
      Bytes(FALSE, 0, <<"7", "f", "4", "0", "4", "0">>) }

Responses(px) ==
    { Raises(ProviderError(c)) : c \in {404, 401, 500} }
    \cup { Raises(ProviderUnauthorized) }
    \cup { Returns(FileOutput(Good(px))),
           Returns(ListOf(<<FileOutput(Good(px))>>)),
           Returns(UrlStr(HttpOk(Good(px)))),
           Returns(ListOf(<<UrlStr(HttpOk(Good(px)))>>)),
           Returns(ListOf(<<>>)),
           Returns(IntOut),
           Returns(UrlStr(HttpConn)) }
    \cup { Returns(UrlStr(HttpStatus(c))) : c \in {401, 403, 404, 500} }
    \cup { Returns(FileOutput(b)) : b \in BadBytes }

\* The answers the runs of main are given: one of each outcome
MainResponses(px) ==
    { Raises(ProviderError(401)),
      Returns(FileOutput(Good(px))),
      Returns(ListOf(<<UrlStr(HttpOk(Good(px)))>>)),
      Returns(IntOut),
      Returns(UrlStr(HttpStatus(404))) }

\* img = generate_image_with_replicate(prompt=..., steps=..., ...)
Generate(p) ==
    /\ pc[p] = "generate"
    /\ \E response \in MainResponses(p) :
         LET g == GenerateImage(args[p].token, ThePrompt, DefaultSteps, DefaultGuidance,
                                DefaultSeed, DefaultWidth, DefaultHeight, response)
         IN  IF g.ok
             THEN /\ img' = [img EXCEPT ![p] = [image |-> g.image, png_metadata |-> <<>>]]
                  /\ pc' = [pc EXCEPT ![p] = "metadata"]
                  /\ UNCHANGED <<exc, exit_code>>
             ELSE /\ Fail(p, g.exc)
                  /\ UNCHANGED img
    /\ UNCHANGED <<clock, ticks, fs, puts, args, now, s3_key, tmp_path, fnVars>>

\* img, png_metadata = add_metadata_to_image(img, ...)
Metadata(p) ==
    /\ pc[p] = "metadata"
    /\ img' = [img EXCEPT ![p].png_metadata =
                  AddMetadata(ThePrompt, DefaultSteps, DefaultGuidance, DefaultSeed, clock)]
    /\ pc' = [pc EXCEPT ![p] = "key"]
    /\ UNCHANGED <<clock, ticks, fs, puts, args, now, s3_key, tmp_path, exc, exit_code, fnVars>>

\* if args.key: ... elif args.organized: ... else: ...
DeriveKey(p) ==
    /\ pc[p] = "key"
    /\ IF TruthyStr(args[p].key)
       THEN /\ s3_key' = [s3_key EXCEPT ![p] = args[p].key.s]
            /\ pc' = [pc EXCEPT ![p] = "save"]
       ELSE IF args[p].organized
       THEN /\ pc' = [pc EXCEPT ![p] = "organized"]
            /\ UNCHANGED s3_key
       ELSE /\ s3_key' = [s3_key EXCEPT ![p] = CreateFilenameWithDate(Sd3, clock)]
            /\ pc' = [pc EXCEPT ![p] = "save"]
    /\ UNCHANGED <<clock, ticks, fs, puts, args, img, now, tmp_path, exc, exit_code, fnVars>>

\* create_s3_key_organized: now = datetime.now() and its three strftime calls
OrganizedNow(p) ==
    /\ pc[p] = "organized"
    /\ now' = [now EXCEPT ![p] = clock]
    /\ pc' = [pc EXCEPT ![p] = "organized_filename"]
    /\ UNCHANGED <<clock, ticks, fs, puts, args, img, s3_key, tmp_path, exc, exit_code, fnVars>>

\* create_s3_key_organized: filename = create_filename_with_date(), which reads
\* the clock again, and the return
OrganizedFilename(p) ==
    /\ pc[p] = "organized_filename"
    /\ s3_key' = [s3_key EXCEPT ![p] = CreateS3KeyOrganized(Images, now[p], clock)]
    /\ pc' = [pc EXCEPT ![p] = "save"]
    /\ UNCHANGED <<clock, ticks, fs, puts, args, img, now, tmp_path, exc, exit_code, fnVars>>

\* tmp_path = Path("/tmp") / Path(s3_key).name; img.save(tmp_path, ...)
\* /tmp itself is a directory: opening it for writing raises.
Save(p) ==
    /\ pc[p] = "save"
    /\ LET path == TmpJoin(PathName(s3_key[p]))
       IN  /\ tmp_path' = [tmp_path EXCEPT ![p] = path]
           /\ IF path = TmpDir
              THEN /\ Fail(p, IsADirectoryError)
                   /\ UNCHANGED fs
              ELSE /\ fs' = Put(fs, path, img[p])
                   /\ pc' = [pc EXCEPT ![p] = "upload"]
                   /\ UNCHANGED <<exc, exit_code>>
    /\ UNCHANGED <<clock, ticks, puts, args, img, now, s3_key, fnVars>>

\* result = upload_to_s3(tmp_path, args.bucket, key=s3_key, ...): the file is
\* read when s3.upload_file runs; a ClientError is logged and re-raised.
Upload(p) ==
    /\ pc[p] = "upload"
    /\ IF tmp_path[p] \notin DOMAIN fs
       THEN /\ Fail(p, FileNotFoundError)
            /\ UNCHANGED puts
       ELSE \/ /\ puts' = puts \cup
                     { [proc |-> p, bucket |-> args[p].bucket.s, key |-> s3_key[p],
                        body |-> fs[tmp_path[p]],
                        metadata |-> S3Metadata(ThePrompt, DefaultSteps, DefaultGuidance,
                                                DefaultSeed, clock)] }
               /\ pc' = [pc EXCEPT ![p] = "unlink"]
               /\ UNCHANGED <<exc, exit_code>>
            \/ /\ \E code \in S3ErrorCodes : Fail(p, ClientError(code))
               /\ UNCHANGED puts
    /\ UNCHANGED <<clock, ticks, fs, args, img, now, s3_key, tmp_path, fnVars>>

\* tmp_path.unlink()
Unlink(p) ==
    /\ pc[p] = "unlink"
    /\ IF tmp_path[p] \notin DOMAIN fs
       THEN /\ Fail(p, FileNotFoundError)
            /\ UNCHANGED fs
       ELSE /\ fs' = [q \in DOMAIN fs \ {tmp_path[p]} |-> fs[q]]
            /\ pc' = [pc EXCEPT ![p] = "print"]
            /\ UNCHANGED <<exc, exit_code>>
    /\ UNCHANGED <<clock, ticks, puts, args, img, now, s3_key, tmp_path, fnVars>>

\* the summary is printed; return 0
Return0(p) ==
    /\ pc[p] = "print"
    /\ exit_code' = [exit_code EXCEPT ![p] = SomeInt(ExitSuccess)]
    /\ pc' = [pc EXCEPT ![p] = "done"]
    /\ UNCHANGED <<clock, ticks, fs, puts, args, img, now, s3_key, tmp_path, exc, fnVars>>

\* The user's interrupt arrives while the run is inside the try block
Interrupt(p) ==
    /\ pc[p] \in TryPcs
    /\ Fail(p, KeyboardInterrupt)
    /\ UNCHANGED <<clock, ticks, fs, puts, args, img, now, s3_key, tmp_path, fnVars>>

\* Midnight passes
Tick ==
    /\ ticks < MaxTicks
    /\ clock' = NextDay(clock)
    /\ ticks' = ticks + 1
    /\ UNCHANGED <<fs, puts, pc, args, img, now, s3_key, tmp_path, exc, exit_code, fnVars>>

NoFile == [image |-> NoImage, png_metadata |-> <<>>]

\* The command lines and environments of the runs: the bucket and the token
\* given with each way of naming the object, then the runs that lack one
Args(bucket, token, key, organized) ==
    [bucket |-> bucket, token |-> token, key |-> key, organized |-> organized]

ArgList ==
    << Args(SomeStr(TheBucket), SomeStr(TheToken), NoneStr, FALSE),
       Args(SomeStr(TheBucket), SomeStr(TheToken), NoneStr, TRUE),
       Args(SomeStr(TheBucket), SomeStr(TheToken), SomeStr(FooPng), FALSE),
       Args(SomeStr(TheBucket), SomeStr(TheToken), SomeStr(XFooPng), TRUE),
       Args(SomeStr(TheBucket), SomeStr(TheToken), SomeStr(<<>>), TRUE),
       Args(SomeStr(TheBucket), SomeStr(TheToken), SomeStr(<<"/">>), FALSE),
       Args(NoneStr, SomeStr(TheToken), NoneStr, FALSE),
       Args(SomeStr(<<>>), SomeStr(TheToken), SomeStr(FooPng), FALSE),
       Args(SomeStr(TheBucket), NoneStr, NoneStr, TRUE) >>

\* The runs are interchangeable: their command lines are taken in ArgList's order
ArgChoices ==
    { f \in [Procs -> 1..Len(ArgList)] : \A p, q \in Procs : p <= q => f[p] <= f[q] }

NoJob == [sent |-> FALSE, inputs |-> EmptyDict]
NoGen == [ok |-> FALSE, image |-> NoImage, exc |-> NoExc]

\* The variables of the function calls, at rest while main runs
FnIdle ==
    /\ fpc = "idle"
    /\ call = <<>>
    /\ job = NoJob
    /\ gen = NoGen
    /\ logged = <<>>
    /\ png_meta = <<>>
    /\ s3_meta = <<>>

Init ==
    /\ clock \in StartDates
    /\ ticks = 0
    /\ fs = EmptyDict
    /\ puts = {}
    /\ pc = [p \in Procs |-> "parse"]
    /\ \E f \in ArgChoices : args = [p \in Procs |-> ArgList[f[p]]]
    /\ img = [p \in Procs |-> NoFile]
    /\ now = [p \in Procs |-> clock]
    /\ s3_key = [p \in Procs |-> <<>>]
    /\ tmp_path = [p \in Procs |-> <<>>]
    /\ exc = [p \in Procs |-> NoExc]
    /\ exit_code = [p \in Procs |-> NoneInt]
    /\ FnIdle

Next ==
    \/ \E p \in Procs : ParseArgs(p)
    \/ \E p \in Procs : CheckToken(p)
    \/ \E p \in Procs : Generate(p)
    \/ \E p \in Procs : Metadata(p)
    \/ \E p \in Procs : DeriveKey(p)
    \/ \E p \in Procs : OrganizedNow(p)
    \/ \E p \in Procs : OrganizedFilename(p)
    \/ \E p \in Procs : Save(p)
    \/ \E p \in Procs : Upload(p)
    \/ \E p \in Procs : Unlink(p)
    \/ \E p \in Procs : Return0(p)
    \/ \E p \in Procs : Interrupt(p)
    \/ Tick

Spec == Init /\ [][Next]_vars

(***************************************************************************)
(* SpecFn: one call of each function on inputs drawn from bounded sets     *)
(***************************************************************************)
Steps == {-5, 0, 28}
Seeds == {NoneInt, SomeInt(0), SomeInt(42), SomeInt(-7)}
Dims == (-1)..MaxDim
Tokens == {NoneStr, SomeStr(TheToken)}

Calls ==
    [ token : Tokens, prompt : {ThePrompt}, steps : Steps, guidance : {DefaultGuidance},
      seed : Seeds, width : Dims, height : Dims, response : Responses(7) ]

\* The variables of main, at rest while the functions are called
MainIdle ==
    /\ clock = [y |-> 2025, m |-> 10, d |-> 13]
    /\ ticks = 0
    /\ fs = EmptyDict
    /\ puts = {}
    /\ pc = [p \in Procs |-> "idle"]
    /\ args = [p \in Procs |-> Args(NoneStr, NoneStr, NoneStr, FALSE)]
    /\ img = [p \in Procs |-> NoFile]
    /\ now = [p \in Procs |-> clock]
    /\ s3_key = [p \in Procs |-> <<>>]
    /\ tmp_path = [p \in Procs |-> <<>>]
    /\ exc = [p \in Procs |-> NoExc]
    /\ exit_code = [p \in Procs |-> NoneInt]

InitFn ==
    /\ MainIdle
    /\ fpc = "start"
    /\ call \in Calls
    /\ job = NoJob
    /\ gen = NoGen
    /\ logged = <<>>
    /\ png_meta = <<>>
    /\ s3_meta = EmptyDict

\* generate_image_with_replicate(prompt, steps, guidance, seed, width, height)
FnGenerate ==
    /\ fpc = "start"
    /\ LET g == GenerateImage(call.token, call.prompt, call.steps, call.guidance,
                              call.seed, call.width, call.height, call.response)
       IN  /\ gen' = [ok |-> g.ok, image |-> g.image, exc |-> g.exc]
           /\ job' = [sent |-> g.sent, inputs |-> g.inputs]
           /\ logged' = g.log
    /\ fpc' = "generated"
    /\ UNCHANGED <<mainVars, call, png_meta, s3_meta>>

\* add_metadata_to_image(image, prompt, steps, guidance, seed)
FnAddMetadata ==
    /\ fpc = "generated"
    /\ png_meta' = AddMetadata(call.prompt, call.steps, call.guidance, call.seed, clock)
    /\ fpc' = "tagged"
    /\ UNCHANGED <<mainVars, call, job, gen, logged, s3_meta>>

\* upload_to_s3(...), up to the s3_metadata it hands to s3.upload_file
FnS3Metadata ==
    /\ fpc = "tagged"
    /\ s3_meta' = S3Metadata(call.prompt, call.steps, call.guidance, call.seed, clock)
    /\ fpc' = "mirrored"
    /\ UNCHANGED <<mainVars, call, job, gen, logged, png_meta>>

NextFn ==
    \/ FnGenerate
    \/ FnAddMetadata
    \/ FnS3Metadata

SpecFn == InitFn /\ [][NextFn]_vars

(***************************************************************************)
(* Properties                                                              *)
(***************************************************************************)
\* The value of a string of decimal digits
RECURSIVE DigitsValue(_)
DigitsValue(s) ==
    IF s = <<>> THEN 0
    ELSE 10 * DigitsValue(SubSeq(s, 1, Len(s) - 1))
         + (CHOOSE i \in 0..9 : Digits[i + 1] = s[Len(s)])

IsDigits(s) ==
    /\ s # <<>>
    /\ \A i \in 1..Len(s) : \E k \in 1..10 : Digits[k] = s[i]
    /\ Len(s) > 1 => s[1] # "0"

\* s is the decimal string form of the integer n
IsDecimalOf(s, n) ==
    IF n < 0
    THEN /\ Len(s) >= 2
         /\ s[1] = "-"
         /\ IsDigits(Tail(s))
         /\ DigitsValue(Tail(s)) = -n
    ELSE IsDigits(s) /\ DigitsValue(s) = n

\* The greatest common divisor, by its definition
Divides(d, n) == \E k \in 0..n : d * k = n
GreatestCommonDivisor(a, b) ==
    CHOOSE d \in 1..a : /\ Divides(d, a) /\ Divides(d, b)
                        /\ \A e \in 1..a : Divides(e, a) /\ Divides(e, b) => e <= d

\* The dates the clock can show
RECURSIVE DaysFrom(_, _)
DaysFrom(t, n) == IF n = 0 THEN {t} ELSE {t} \cup DaysFrom(NextDay(t), n - 1)
Dates == UNION { DaysFrom(t, MaxTicks) : t \in StartDates }

\* The run of p has derived its key
KeyDerived(p) == pc[p] \in {"save", "upload", "unlink", "print"}
Done(p) == pc[p] = "done"

\* ---- C1
\* C1: a run that has written its temporary file leaves no temporary file
\* behind when it ends, whether upload_to_s3 returned or raised.
C1_TempFileRemoved ==
    [][\A p \in Procs :
         (/\ pc[p] \in {"upload", "unlink", "print"}
          /\ pc'[p] = "done"
          /\ exc'[p].type # "KeyboardInterrupt")
         => tmp_path[p] \notin DOMAIN fs']_vars

\* ---- C2
\* C2: concurrent runs are independent: every upload request carries the image
\* of the run that sent it, a run that saved its temporary file still finds
\* its own image there until it deletes it, and no run fails on a missing file.
C2_Independent ==
    /\ \A r \in puts : r.body.image.pixels = r.proc
    /\ \A p \in Procs :
         pc[p] \in {"upload", "unlink"} =>
            /\ tmp_path[p] \in DOMAIN fs
            /\ fs[tmp_path[p]].image.pixels = p
    /\ \A p \in Procs : exc[p].type # "FileNotFoundError"

\* ---- C3
\* p's generation and upload both succeeded
GeneratedAndUploaded(p) ==
    /\ img[p].image # NoImage
    /\ \E r \in puts : r.proc = p

C4_KeyDerivation ==
    \A p \in Procs : KeyDerived(p) =>
        IF TruthyStr(args[p].key) THEN s3_key[p] = args[p].key.s
        ELSE IF args[p].organized
        THEN \E t \in Dates :
                s3_key[p] = Images \o <<"/">> \o StrfY(t) \o <<"/">> \o Strfm(t) \o <<"/">>
                            \o Strfd(t) \o <<"/">> \o Sd3 \o <<"_">> \o StrfYmd(t) \o DotPng
        ELSE \E t \in Dates : s3_key[p] = Sd3 \o <<"_">> \o StrfYmd(t) \o DotPng

\* ---- C10
\* C10: in a key built by create_s3_key_organized the year, month and day
\* directories are the date of the filename.
C10_OrganizedKeyOneDate ==
    \A p \in Procs :
        (KeyDerived(p) /\ ~TruthyStr(args[p].key) /\ args[p].organized) =>
            LET parts == PathParts(s3_key[p], <<>>)
            IN  /\ Len(parts) = 5
                /\ parts[5] = Sd3 \o <<"_">> \o parts[2] \o <<"-">> \o parts[3]
                              \o <<"-">> \o parts[4] \o DotPng

\* ---- C5
HasChunk(meta, k) == \E i \in 1..Len(meta) : meta[i][1] = k
ChunkValues(meta, k) == { meta[i][2] : i \in { j \in 1..Len(meta) : meta[j][1] = k } }

\* C5: the job description holds no steps field (its fields are among prompt,
\* cfg, output_format, seed and aspect_ratio), while the image metadata and the
\* storage metadata both hold steps as the decimal string of the steps value.
C5_StepsNotSentButRecorded ==
    /\ job.sent =>
          /\ "steps" \notin DOMAIN job.inputs
          /\ DOMAIN job.inputs \subseteq {"prompt", "cfg", "output_format", "seed", "aspect_ratio"}
    /\ fpc \in {"tagged", "mirrored"} =>
          /\ HasChunk(png_meta, "steps")
          /\ \A v \in ChunkValues(png_meta, "steps") : IsDecimalOf(v, call.steps)
    /\ fpc = "mirrored" =>
          /\ "steps" \in DOMAIN s3_meta
          /\ IsDecimalOf(s3_meta["steps"], call.steps)

\* A job was sent for a negative steps value and both metadata sets are built
C5_Witness ==
    /\ fpc = "mirrored"
    /\ job.sent
    /\ call.steps = -5
    /\ s3_meta["steps"] = <<"-", "5">>

\* ---- C6
\* C6: a seed of None or 0 leaves no seed entry in the image metadata nor in the
\* storage metadata; any other seed is in both as its decimal string.
C6_SeedEntry ==
    /\ fpc \in {"tagged", "mirrored"} =>
          IF ~call.seed.some \/ call.seed.v = 0
          THEN ~HasChunk(png_meta, "seed")
          ELSE /\ HasChunk(png_meta, "seed")
               /\ \A v \in ChunkValues(png_meta, "seed") : IsDecimalOf(v, call.seed.v)
    /\ fpc = "mirrored" =>
          IF ~call.seed.some \/ call.seed.v = 0
          THEN "seed" \notin DOMAIN s3_meta
          ELSE /\ "seed" \in DOMAIN s3_meta
               /\ IsDecimalOf(s3_meta["seed"], call.seed.v)

\* Both metadata sets were built for the seed 0
C6_Witness ==
    /\ fpc = "mirrored"
    /\ call.seed = SomeInt(0)
    /\ "seed" \notin DOMAIN s3_meta
    /\ "steps" \in DOMAIN s3_meta

\* ---- C7
\* s is "<a>:<b>" for the integers a and b
IsRatioOf(s, a, b) ==
    \E i \in 1..Len(s) :
        /\ s[i] = ":"
        /\ IsDecimalOf(SubSeq(s, 1, i - 1), a)
        /\ IsDecimalOf(SubSeq(s, i + 1, Len(s)), b)

\* C7: for positive width and height the job description holds aspect_ratio
\* exactly when the ratio in lowest terms is not 1:1, its value is
\* "(width/g):(height/g)" for g the greatest common divisor, and scaling both
\* dimensions by a common factor gives the same string.
C7_AspectRatioReduced ==
    (job.sent /\ call.width > 0 /\ call.height > 0) =>
        LET g == GreatestCommonDivisor(call.width, call.height)
            a == call.width \div g
            b == call.height \div g
        IN  /\ "aspect_ratio" \in DOMAIN job.inputs <=> ~(a = 1 /\ b = 1)
            /\ "aspect_ratio" \in DOMAIN job.inputs =>
                  IsRatioOf(job.inputs["aspect_ratio"], a, b)
            /\ \A k \in 1..MaxDim :
                  AspectRatio(k * call.width, k * call.height)
                     = AspectRatio(call.width, call.height)

\* A job was sent for 4 x 6 and carries 2:3
C7_Witness ==
    /\ job.sent
    /\ call.width = 4
    /\ call.height = 6
    /\ "aspect_ratio" \in DOMAIN job.inputs
    /\ job.inputs["aspect_ratio"] = <<"2", ":", "3">>

\* ---- C8
\* C8: a call with a non-positive width or height fails and sends no job
\* description to the provider.
C8_NonPositiveRejected ==
    (/\ fpc # "start"
     /\ ~TokenMissing(call.token)
     /\ (call.width <= 0 \/ call.height <= 0))
    => (~gen.ok /\ ~job.sent)

\* ---- C9
\* C9: an error of the provider call with status 404 is signalled as model not
\* found, one with status 401 as invalid credentials, and every other error
\* (response shape, URL fetch, image decode) comes out unchanged.
C9_ErrorsByProviderStatus ==
    (fpc # "start" /\ job.sent /\ ~gen.ok) =>
        LET e == TryBody(call.response).exc
        IN  IF e.origin = "provider" /\ e.status = 404
            THEN logged # <<>>
            ELSE IF e.origin = "provider" /\ e.status = 401
            THEN gen.exc = InvalidTokenError
            ELSE gen.exc = e

====
